---- MODULE Spec2Model ----
(***************************************************************************)
(* Model of internvl_chat/eval/pope/evaluate_pope.py: the question-file    *)
(* reader (VQADataset), the shard sampler (InferenceSampler) and the       *)
(* distributed evaluation driver (evaluate_chat_model and __main__).       *)
(*                                                                         *)
(* Two specifications:                                                     *)
(*   ShardSpec  applies InferenceSampler._get_local_indices, rank by rank, *)
(*              to every (total_size, world_size) within the bounds;       *)
(*   Spec       runs one process per rank through __main__ and             *)
(*              evaluate_chat_model, with the barrier and the all-gather.  *)
(***************************************************************************)
EXTENDS Integers, Sequences, FiniteSets, TLC

\* ---------------------------------------------------------------- bounds
MaxTotal == 12       \* ShardSpec: largest total_size
MaxShardWorld == 5   \* ShardSpec: largest world_size
MaxWorld == 3        \* Spec: largest world_size
MaxFileLen == 5      \* Spec: largest number of characters of the question file
MaxDatasets == 2     \* Spec: largest number of names in --datasets
MaxBatch == 2        \* Spec: largest --batch-size

VARIABLES
  sTotal, sWorld, sRanges,                 \* ShardSpec
  file, world_size, batch_size, datasets,  \* inputs of a run
  out_dir, pc, err, pg_init, model_loaded, ds_i,
  size, local_indices, cursor, outputs, chat_calls,
  barrier_count, gather_buf, merged_outputs,
  files, cmds

shardVars == <<sTotal, sWorld, sRanges>>
inputVars == <<file, world_size, batch_size, datasets>>
rankVars == <<pc, err, pg_init, model_loaded, ds_i, size, local_indices, cursor,
              outputs, barrier_count, gather_buf, merged_outputs>>
runVars == <<out_dir, rankVars, chat_calls, files, cmds>>
vars == <<shardVars, inputVars, runVars>>

\* ------------------------------------------------ InferenceSampler (64-87)
RECURSIVE SumFirst(_, _)
\* sum(shard_sizes[:k]) for a list indexed 0 .. n-1; a slice past the end stops at n
SumFirst(sizes, k) ==
  IF k <= 0 \/ sizes = <<>> THEN 0
  ELSE LET n == IF k > Len(sizes) THEN Len(sizes) ELSE k
       IN sizes[n] + SumFirst(SubSeq(sizes, 1, n - 1), n - 1)

Min(a, b) == IF a < b THEN a ELSE b

\* variant: the comparison r <= left hands out one extra item
ShardSizes_le(total, world) ==
  [k \in 1 .. world |-> (total \div world) + (IF k - 1 <= (total % world) THEN 1 ELSE 0)]

\* variant: the remainder goes to the highest ranks
ShardSizes_high(total, world) ==
  [k \in 1 .. world |-> (total \div world) + (IF k - 1 >= world - (total % world) THEN 1 ELSE 0)]

\* shard_sizes = [shard_size + int(r < left) for r in range(world_size)]
ShardSizes(total, world) ==
  LET shard_size == total \div world
      left == total % world
  IN [k \in 1 .. world |-> shard_size + (IF k - 1 < left THEN 1 ELSE 0)]

\* variant: begin computed as rank * shard_size, the remainder forgotten
GetLocalIndices_flat(total, world, rank) ==
  LET shard_sizes == ShardSizes(total, world)
      begin == rank * (total \div world)
      end == Min(SumFirst(shard_sizes, rank + 1), total)
  IN <<begin, end>>

\* range(begin, end), kept as the pair <<begin, end>>
GetLocalIndices(total, world, rank) ==
  LET shard_sizes == ShardSizes(total, world)
      begin == SumFirst(shard_sizes, rank)
      end == Min(SumFirst(shard_sizes, rank + 1), total)
  IN <<begin, end>>

\* the indices a Python range(begin, end) yields, and its length
RangeSet(rg) == rg[1] .. (rg[2] - 1)
RangeLen(rg) == IF rg[2] > rg[1] THEN rg[2] - rg[1] ELSE 0

\* ------------------------------------------------------------- ShardSpec
NoRanges == [k \in {} |-> <<0, 0>>]

ShardInit ==
  /\ sTotal \in 1 .. MaxTotal
  /\ sWorld \in 1 .. MaxShardWorld
  /\ sRanges = NoRanges
  /\ file = <<>> /\ world_size = 1 /\ batch_size = 1 /\ datasets = <<"pope">>
  /\ out_dir = FALSE
  /\ pc = [r \in {0} |-> "done"] /\ err = [r \in {0} |-> ""]
  /\ pg_init = [r \in {0} |-> FALSE] /\ model_loaded = [r \in {0} |-> FALSE]
  /\ ds_i = [r \in {0} |-> 0] /\ size = [r \in {0} |-> 0]
  /\ local_indices = [r \in {0} |-> <<0, 0>>] /\ cursor = [r \in {0} |-> 0]
  /\ outputs = [r \in {0} |-> <<>>] /\ chat_calls = 0
  /\ barrier_count = [r \in {0} |-> 0] /\ gather_buf = [r \in {0} |-> <<>>]
  /\ merged_outputs = [r \in {0} |-> <<>>]
  /\ files = <<>> /\ cmds = <<>>

\* one rank evaluates _get_local_indices(total_size, world_size, rank)
ShardCompute(rank) ==
  /\ rank \in 0 .. sWorld - 1
  /\ rank \notin DOMAIN sRanges
  /\ sRanges' = (rank :> GetLocalIndices(sTotal, sWorld, rank)) @@ sRanges
  /\ UNCHANGED <<sTotal, sWorld, inputVars, runVars>>

ShardNext == \E rank \in 0 .. MaxShardWorld + 1 : ShardCompute(rank)

ShardSpec == ShardInit /\ [][ShardNext]_vars

\* ------------------------------------------------------ VQADataset (36-61)
Chars == {"x", "nl"}          \* "nl" is the line terminator, "x" any other character
DatasetNames == {"pope", "gqa"}
ds_collections == {"pope"}    \* the keys of the name -> config mapping
checkpoint == "ckpt"          \* args.checkpoint

RECURSIVE SeqsUpTo(_, _)
SeqsUpTo(S, n) ==
  IF n = 0 THEN {<<>>}
  ELSE LET shorter == SeqsUpTo(S, n - 1)
       IN shorter \cup {Append(q, c) : q \in {t \in shorter : Len(t) = n - 1}, c \in S}

\* position of the first line terminator of f, or Len(f) when there is none
FirstBreak(f) ==
  IF \E k \in 1 .. Len(f) : f[k] = "nl"
  THEN CHOOSE k \in 1 .. Len(f) : f[k] = "nl" /\ \A j \in 1 .. k - 1 : f[j] # "nl"
  ELSE Len(f)

RECURSIVE ReadLines_skipblank(_)
\* variant: blank lines are left out of the list
ReadLines_skipblank(f) ==
  IF f = <<>> THEN <<>>
  ELSE LET k == FirstBreak(f)
           rest == ReadLines_skipblank(SubSeq(f, k + 1, Len(f)))
       IN IF SubSeq(f, 1, k) = <<"nl">> THEN rest ELSE <<SubSeq(f, 1, k)>> \o rest

RECURSIVE ReadLines(_)
\* open(data).readlines(): every line with its terminator, blank lines included
ReadLines(f) ==
  IF f = <<>> THEN <<>>
  ELSE LET k == FirstBreak(f)
       IN <<SubSeq(f, 1, k)>> \o ReadLines(SubSeq(f, k + 1, Len(f)))

RECURSIVE Strip(_)
\* str.strip(): whitespace removed at both ends
Strip(line) ==
  IF line = <<>> THEN <<>>
  ELSE IF Head(line) = "nl" THEN Strip(Tail(line))
  ELSE IF line[Len(line)] = "nl" THEN Strip(SubSeq(line, 1, Len(line) - 1))
  ELSE line

\* json.loads of a stripped line raises on the empty string
JsonLineOk(line) == Strip(line) # <<>>

\* model.chat on the question of record idx: decoding is deterministic, the
\* text depends on the question only
Chat(data, idx) == IF Len(Strip(data[idx + 1])) % 2 = 1 THEN "yes" ELSE "no"

\* the dictionary appended to outputs; the question_id of line idx is idx
Prediction(data, idx) ==
  [question_id |-> idx, text |-> Chat(data, idx), model_id |-> checkpoint]

\* -------------------------------------------- json.dumps / json.loads (152-154)
Digits == <<"0", "1", "2", "3", "4", "5", "6", "7", "8", "9">>
NumStr(n) == Digits[n + 1]
StrNum(d) == (CHOOSE k \in 1 .. Len(Digits) : Digits[k] = d) - 1

RECURSIVE JsonDumps(_)
\* the list of dictionaries as a flat text of tokens
JsonDumps(list) ==
  IF list = <<>> THEN <<>>
  ELSE <<"{", NumStr(list[1].question_id), list[1].text, list[1].model_id, "}">>
       \o JsonDumps(Tail(list))

RECURSIVE JsonLoads(_)
JsonLoads(text) ==
  IF Len(text) < 5 THEN <<>>
  ELSE <<[question_id |-> StrNum(text[2]), text |-> text[3], model_id |-> text[4]]>>
       \o JsonLoads(SubSeq(text, 6, Len(text)))

RECURSIVE Chain(_)
\* itertools.chain.from_iterable over a list of lists
Chain(lists) == IF lists = <<>> THEN <<>> ELSE Head(lists) \o Chain(Tail(lists))

\* ------------------------------------------------------------------- Spec
Ranks == 0 .. world_size - 1

Init ==
  /\ sTotal = 1 /\ sWorld = 1 /\ sRanges = NoRanges
  /\ file \in SeqsUpTo(Chars, MaxFileLen)
  /\ world_size \in 1 .. MaxWorld
  /\ batch_size \in 1 .. MaxBatch
  /\ datasets \in SeqsUpTo(DatasetNames, MaxDatasets) \ {<<>>}
  /\ out_dir \in BOOLEAN
  /\ pc = [r \in Ranks |-> "main"]
  /\ err = [r \in Ranks |-> ""]
  /\ pg_init = [r \in Ranks |-> FALSE]
  /\ model_loaded = [r \in Ranks |-> FALSE]
  /\ ds_i = [r \in Ranks |-> 0]
  /\ size = [r \in Ranks |-> 0]
  /\ local_indices = [r \in Ranks |-> <<0, 0>>]
  /\ cursor = [r \in Ranks |-> 0]
  /\ outputs = [r \in Ranks |-> <<>>]
  /\ chat_calls = 0
  /\ barrier_count = [r \in Ranks |-> 0]
  /\ gather_buf = [r \in Ranks |-> <<>>]
  /\ merged_outputs = [r \in Ranks |-> <<>>]
  /\ files = <<>>
  /\ cmds = <<>>

\* an uncaught exception ends the process of rank r
Raise(r, what) ==
  /\ pc' = [pc EXCEPT ![r] = "failed"]
  /\ err' = [err EXCEPT ![r] = what]

\* 186: if not os.path.exists(args.out_dir)
CheckOutDir(r) ==
  /\ pc[r] = "main"
  /\ pc' = [pc EXCEPT ![r] = IF out_dir THEN "args" ELSE "makedirs"]
  /\ UNCHANGED <<shardVars, inputVars, out_dir, err, pg_init, model_loaded, ds_i, size,
                 local_indices, cursor, outputs, barrier_count, gather_buf,
                 merged_outputs, chat_calls, files, cmds>>

\* 187: os.makedirs(args.out_dir) raises when another rank made it meanwhile
MakeDirs(r) ==
  /\ pc[r] = "makedirs"
  /\ IF out_dir
     THEN Raise(r, "FileExistsError") /\ UNCHANGED out_dir
     ELSE /\ out_dir' = TRUE
          /\ pc' = [pc EXCEPT ![r] = "args"]
          /\ UNCHANGED err
  /\ UNCHANGED <<shardVars, inputVars, pg_init, model_loaded, ds_i, size,
                 local_indices, cursor, outputs, barrier_count, gather_buf,
                 merged_outputs, chat_calls, files, cmds>>

\* variant: the batch size is not checked
ParseArgs_nocheck(r) ==
  /\ pc[r] = "args"
  /\ pc' = [pc EXCEPT ![r] = "init_pg"]
  /\ UNCHANGED <<shardVars, inputVars, out_dir, err, pg_init, model_loaded, ds_i, size,
                 local_indices, cursor, outputs, barrier_count, gather_buf,
                 merged_outputs, chat_calls, files, cmds>>

\* 189-191: assert args.batch_size == 1
ParseArgs(r) ==
  /\ pc[r] = "args"
  /\ IF batch_size = 1
     THEN pc' = [pc EXCEPT ![r] = "init_pg"] /\ UNCHANGED err
     ELSE Raise(r, "AssertionError: batch size")
  /\ UNCHANGED <<shardVars, inputVars, out_dir, pg_init, model_loaded, ds_i, size,
                 local_indices, cursor, outputs, barrier_count, gather_buf,
                 merged_outputs, chat_calls, files, cmds>>

\* 193-199: torch.distributed.init_process_group, set_device
InitProcessGroup(r) ==
  /\ pc[r] = "init_pg"
  /\ pg_init' = [pg_init EXCEPT ![r] = TRUE]
  /\ pc' = [pc EXCEPT ![r] = "load"]
  /\ UNCHANGED <<shardVars, inputVars, out_dir, err, model_loaded, ds_i, size,
                 local_indices, cursor, outputs, barrier_count, gather_buf,
                 merged_outputs, chat_calls, files, cmds>>

\* 91-95: the model and the tokenizer are loaded once, before the dataset loop
LoadModel(r) ==
  /\ pc[r] = "load"
  /\ model_loaded' = [model_loaded EXCEPT ![r] = TRUE]
  /\ ds_i' = [ds_i EXCEPT ![r] = 1]
  /\ pc' = [pc EXCEPT ![r] = "ds_begin"]
  /\ UNCHANGED <<shardVars, inputVars, out_dir, err, pg_init, size,
                 local_indices, cursor, outputs, barrier_count, gather_buf,
                 merged_outputs, chat_calls, files, cmds>>

\* variant: the sampler does not assert size > 0
DsBegin_noassert(r) ==
  /\ pc[r] = "ds_begin"
  /\ IF ds_i[r] > Len(datasets)
     THEN /\ pc' = [pc EXCEPT ![r] = "done"]
          /\ UNCHANGED <<err, size, local_indices, cursor, outputs>>
     ELSE IF datasets[ds_i[r]] \notin ds_collections
     THEN /\ Raise(r, "KeyError")
          /\ UNCHANGED <<size, local_indices, cursor, outputs>>
     ELSE LET data == ReadLines(file)
              rg == GetLocalIndices(Len(data), world_size, r)
          IN /\ size' = [size EXCEPT ![r] = Len(data)]
             /\ local_indices' = [local_indices EXCEPT ![r] = rg]
             /\ cursor' = [cursor EXCEPT ![r] = rg[1]]
             /\ outputs' = [outputs EXCEPT ![r] = <<>>]
             /\ pc' = [pc EXCEPT ![r] = "loop"]
             /\ UNCHANGED err
  /\ UNCHANGED <<shardVars, inputVars, out_dir, pg_init, model_loaded, ds_i,
                 barrier_count, gather_buf, merged_outputs, chat_calls, files, cmds>>

\* 96-120: next dataset name, VQADataset, InferenceSampler(len(dataset)), outputs = []
DsBegin(r) ==
  /\ pc[r] = "ds_begin"
  /\ IF ds_i[r] > Len(datasets)
     THEN /\ pc' = [pc EXCEPT ![r] = "done"]
          /\ UNCHANGED <<err, size, local_indices, cursor, outputs>>
     ELSE IF datasets[ds_i[r]] \notin ds_collections
     THEN /\ Raise(r, "KeyError")
          /\ UNCHANGED <<size, local_indices, cursor, outputs>>
     ELSE LET data == ReadLines(file)
              rg == GetLocalIndices(Len(data), world_size, r)
          IN /\ size' = [size EXCEPT ![r] = Len(data)]
             /\ IF Len(data) > 0
                THEN /\ local_indices' = [local_indices EXCEPT ![r] = rg]
                     /\ cursor' = [cursor EXCEPT ![r] = rg[1]]
                     /\ outputs' = [outputs EXCEPT ![r] = <<>>]
                     /\ pc' = [pc EXCEPT ![r] = "loop"]
                     /\ UNCHANGED err
                ELSE /\ Raise(r, "AssertionError: size")
                     /\ UNCHANGED <<local_indices, cursor, outputs>>
  /\ UNCHANGED <<shardVars, inputVars, out_dir, pg_init, model_loaded, ds_i,
                 barrier_count, gather_buf, merged_outputs, chat_calls, files, cmds>>

\* 121-146: one item of the local shard: __getitem__, model.chat, outputs.append
Loop(r) ==
  /\ pc[r] = "loop"
  /\ cursor[r] < local_indices[r][2]
  /\ LET data == ReadLines(file)
         idx == cursor[r]
     IN IF JsonLineOk(data[idx + 1])
        THEN /\ chat_calls' = chat_calls + 1
             /\ outputs' = [outputs EXCEPT ![r] = Append(@, Prediction(data, idx))]
             /\ cursor' = [cursor EXCEPT ![r] = idx + 1]
             /\ UNCHANGED <<pc, err>>
        ELSE /\ Raise(r, "JSONDecodeError")
             /\ UNCHANGED <<chat_calls, outputs, cursor>>
  /\ UNCHANGED <<shardVars, inputVars, out_dir, pg_init, model_loaded, ds_i, size,
                 local_indices, barrier_count, gather_buf, merged_outputs, files, cmds>>

\* 52-54, 131: the image cannot be opened or the model raises
ItemFails(r) ==
  /\ pc[r] = "loop"
  /\ cursor[r] < local_indices[r][2]
  /\ JsonLineOk(ReadLines(file)[cursor[r] + 1])
  /\ Raise(r, "item error")
  /\ UNCHANGED <<shardVars, inputVars, out_dir, pg_init, model_loaded, ds_i, size,
                 local_indices, cursor, outputs, barrier_count, gather_buf,
                 merged_outputs, chat_calls, files, cmds>>

\* 148: the shard is exhausted and the rank enters torch.distributed.barrier()
EnterBarrier(r) ==
  /\ pc[r] = "loop"
  /\ cursor[r] >= local_indices[r][2]
  /\ barrier_count' = [barrier_count EXCEPT ![r] = @ + 1]
  /\ pc' = [pc EXCEPT ![r] = "barrier"]
  /\ UNCHANGED <<shardVars, inputVars, out_dir, err, pg_init, model_loaded, ds_i, size,
                 local_indices, cursor, outputs, gather_buf, merged_outputs,
                 chat_calls, files, cmds>>

\* variant: the barrier does not wait for the other ranks
AllGather_nowait(r) ==
  /\ pc[r] = "barrier"
  /\ gather_buf' = [gather_buf EXCEPT ![r] = Append(@, JsonDumps(outputs[r]))]
  /\ pc' = [pc EXCEPT ![r] = "all_gather"]
  /\ UNCHANGED <<shardVars, inputVars, out_dir, err, pg_init, model_loaded, ds_i, size,
                 local_indices, cursor, outputs, barrier_count, merged_outputs,
                 chat_calls, files, cmds>>

\* 148-152: the barrier returns once every rank entered it; the rank then
\* contributes json.dumps(outputs) to all_gather_object
AllGather(r) ==
  /\ pc[r] = "barrier"
  /\ \A q \in Ranks : barrier_count[q] >= barrier_count[r]
  /\ gather_buf' = [gather_buf EXCEPT ![r] = Append(@, JsonDumps(outputs[r]))]
  /\ pc' = [pc EXCEPT ![r] = "all_gather"]
  /\ UNCHANGED <<shardVars, inputVars, out_dir, err, pg_init, model_loaded, ds_i, size,
                 local_indices, cursor, outputs, barrier_count, merged_outputs,
                 chat_calls, files, cmds>>

\* variant: the gathered strings arrive in decreasing rank order
Gathered_rev(k) == [j \in 1 .. world_size |-> gather_buf[world_size - j][k]]

\* the strings all_gather_object delivers for round k, in rank order
Gathered(k) == [j \in 1 .. world_size |-> gather_buf[j - 1][k]]

\* variant: every rank goes on to write, the rank test is missing
Merge_norank(r) ==
  /\ pc[r] = "all_gather"
  /\ \A q \in Ranks : Len(gather_buf[q]) >= Len(gather_buf[r])
  /\ LET got == Gathered(Len(gather_buf[r]))
     IN merged_outputs' =
          [merged_outputs EXCEPT ![r] = Chain([j \in 1 .. world_size |-> JsonLoads(got[j])])]
  /\ pc' = [pc EXCEPT ![r] = "write"]
  /\ UNCHANGED <<shardVars, inputVars, out_dir, err, pg_init, model_loaded, size, ds_i,
                 local_indices, cursor, outputs, barrier_count, gather_buf,
                 chat_calls, files, cmds>>

\* 152-157: all_gather_object returns once every rank contributed; the lists
\* are parsed and chained; rank 0 goes on to write, the others to the next dataset
Merge(r) ==
  /\ pc[r] = "all_gather"
  /\ \A q \in Ranks : Len(gather_buf[q]) >= Len(gather_buf[r])
  /\ LET got == Gathered(Len(gather_buf[r]))
     IN merged_outputs' =
          [merged_outputs EXCEPT ![r] = Chain([j \in 1 .. world_size |-> JsonLoads(got[j])])]
  /\ IF r = 0
     THEN pc' = [pc EXCEPT ![r] = "write"] /\ UNCHANGED ds_i
     ELSE /\ pc' = [pc EXCEPT ![r] = "ds_begin"]
          /\ ds_i' = [ds_i EXCEPT ![r] = @ + 1]
  /\ UNCHANGED <<shardVars, inputVars, out_dir, err, pg_init, model_loaded, size,
                 local_indices, cursor, outputs, barrier_count, gather_buf,
                 chat_calls, files, cmds>>

\* 158-163: json.dump(merged_outputs, open(results_file, 'w'))
Write(r) ==
  /\ pc[r] = "write"
  /\ files' = Append(files, [rank |-> r, ds |-> ds_i[r], name |-> datasets[ds_i[r]],
                             content |-> merged_outputs[r]])
  /\ pc' = [pc EXCEPT ![r] = "score"]
  /\ UNCHANGED <<shardVars, inputVars, out_dir, err, pg_init, model_loaded, ds_i, size,
                 local_indices, cursor, outputs, barrier_count, gather_buf,
                 merged_outputs, chat_calls, cmds>>

ExitStatuses == {0, 1}

\* variant: a non-zero exit status of the scoring command raises
Score_checked(r) ==
  /\ pc[r] = "score"
  /\ \E status \in ExitStatuses :
       /\ cmds' = Append(cmds, [rank |-> r, ds |-> ds_i[r], result_file |-> Len(files),
                                status |-> status])
       /\ IF status = 0
          THEN /\ ds_i' = [ds_i EXCEPT ![r] = @ + 1]
               /\ pc' = [pc EXCEPT ![r] = "ds_begin"]
               /\ UNCHANGED err
          ELSE Raise(r, "scoring failed") /\ UNCHANGED ds_i
  /\ UNCHANGED <<shardVars, inputVars, out_dir, pg_init, model_loaded, size,
                 local_indices, cursor, outputs, barrier_count, gather_buf,
                 merged_outputs, chat_calls, files>>

\* 164-169: os.system(cmd); the returned status is dropped
Score(r) ==
  /\ pc[r] = "score"
  /\ \E status \in ExitStatuses :
       cmds' = Append(cmds, [rank |-> r, ds |-> ds_i[r], result_file |-> Len(files),
                             status |-> status])
  /\ ds_i' = [ds_i EXCEPT ![r] = @ + 1]
  /\ pc' = [pc EXCEPT ![r] = "ds_begin"]
  /\ UNCHANGED <<shardVars, inputVars, out_dir, err, pg_init, model_loaded, size,
                 local_indices, cursor, outputs, barrier_count, gather_buf,
                 merged_outputs, chat_calls, files>>

Next ==
  \/ \E r \in Ranks : CheckOutDir(r)
  \/ \E r \in Ranks : MakeDirs(r)
  \/ \E r \in Ranks : ParseArgs(r)
  \/ \E r \in Ranks : InitProcessGroup(r)
  \/ \E r \in Ranks : LoadModel(r)
  \/ \E r \in Ranks : DsBegin(r)
  \/ \E r \in Ranks : Loop(r)
  \/ \E r \in Ranks : ItemFails(r)
  \/ \E r \in Ranks : EnterBarrier(r)
  \/ \E r \in Ranks : AllGather(r)
  \/ \E r \in Ranks : Merge(r)
  \/ \E r \in Ranks : Write(r)
  \/ \E r \in Ranks : Score(r)

Spec == Init /\ [][Next]_vars

\* ------------------------------------------------- properties of ShardSpec
ShardComplete == DOMAIN sRanges = 0 .. sWorld - 1

\* C1: once every rank has its range, the ranges are pairwise disjoint, their
\* union is exactly [0, total_size), any two sizes differ by at most 1, and
\* with world_size = 1 the single range is the whole of [0, total_size).
C1_Partition ==
  ShardComplete =>
    /\ \A a, b \in DOMAIN sRanges :
         a # b => RangeSet(sRanges[a]) \cap RangeSet(sRanges[b]) = {}
    /\ UNION {RangeSet(sRanges[a]) : a \in DOMAIN sRanges} = 0 .. sTotal - 1
    /\ \A a, b \in DOMAIN sRanges :
         RangeLen(sRanges[a]) - RangeLen(sRanges[b]) \in {-1, 0, 1}
    /\ sWorld = 1 => sRanges[0] = <<0, sTotal>>

\* C1 witness: more ranks than items, every rank computed, some rank empty
C1_Witness ==
  /\ ShardComplete
  /\ sWorld > sTotal
  /\ \E a \in DOMAIN sRanges : RangeSet(sRanges[a]) = {}
  /\ \E a \in DOMAIN sRanges : RangeSet(sRanges[a]) # {}

\* C2: rank r gets base + 1 indices when r < remainder and base otherwise, as
\* a contiguous range starting at the sum of the sizes of the lower ranks;
\* total_size = 10, world_size = 3 gives [0,4), [4,7), [7,10).
C2_Sizes ==
  LET base == sTotal \div sWorld
      remainder == sTotal % sWorld
      want(r) == IF r < remainder THEN base + 1 ELSE base
  IN /\ \A r \in DOMAIN sRanges :
          /\ sRanges[r][1] = r * base + Min(r, remainder)
          /\ sRanges[r][2] = sRanges[r][1] + want(r)
          /\ Cardinality(RangeSet(sRanges[r])) = want(r)
     /\ (sTotal = 10 /\ sWorld = 3 /\ ShardComplete) =>
          sRanges = (0 :> <<0, 4>>) @@ (1 :> <<4, 7>>) @@ (2 :> <<7, 10>>)

\* C2 witness: the example, fully computed
C2_Witness == sTotal = 10 /\ sWorld = 3 /\ ShardComplete

\* ------------------------------------------------------ properties of Spec
Lines == ReadLines(file)

\* number of all-gathers that have returned on rank r
MergesDone(r) == IF pc[r] = "all_gather" THEN Len(gather_buf[r]) - 1 ELSE Len(gather_buf[r])

\* InferenceSampler.__init__ has run on rank r
SamplerCalled(r) == size[r] > 0 \/ err[r] = "AssertionError: size"

\* what one process with world_size = 1 appends over the full dataset
SingleRun ==
  LET rg == GetLocalIndices(Len(Lines), 1, 0)
  IN [i \in 1 .. RangeLen(rg) |-> Prediction(Lines, rg[1] + i - 1)]

\* C3: the merged list a rank builds from the all-gather, concatenated in
\* increasing rank order, is the sequence of predictions of a single-process
\* run over the full dataset.
C3_MergedOrder ==
  \A r \in Ranks : MergesDone(r) >= 1 =>
    /\ merged_outputs[r] = SingleRun
    /\ \A i \in 1 .. Len(merged_outputs[r]) : merged_outputs[r][i].question_id = i - 1

\* C3 witness: two ranks with unequal shards have merged
C3_Witness ==
  /\ world_size = 2 /\ Len(Lines) = 3
  /\ \A r \in Ranks : MergesDone(r) >= 1
  /\ Len(outputs[0]) = 2 /\ Len(outputs[1]) = 1

\* C4: a results file is written and scoring is invoked by rank 0 only, only
\* after every rank entered the barrier and contributed to the all-gather of
\* that dataset, and the file holds the full merged list.
C4_RankZeroAfterGather ==
  /\ \A r \in Ranks : pc[r] \in {"write", "score"} => r = 0
  /\ \A k \in 1 .. Len(files) :
       /\ files[k].rank = 0
       /\ \A q \in Ranks : barrier_count[q] >= files[k].ds /\ Len(gather_buf[q]) >= files[k].ds
       /\ files[k].content = Chain([j \in 1 .. world_size |-> JsonLoads(gather_buf[j - 1][files[k].ds])])
       /\ Len(files[k].content) = Len(Lines)
  /\ \A k \in 1 .. Len(cmds) :
       /\ cmds[k].rank = 0
       /\ cmds[k].result_file \in 1 .. Len(files)
       /\ files[cmds[k].result_file].ds = cmds[k].ds
       /\ \A q \in Ranks : barrier_count[q] >= cmds[k].ds /\ Len(gather_buf[q]) >= cmds[k].ds

\* C4 witness: several ranks, rank 0 wrote a file and ran the scoring command
C4_Witness ==
  /\ world_size >= 2
  /\ Len(files) >= 1 /\ Len(cmds) >= 1
  /\ \E q \in Ranks : q # 0 /\ MergesDone(q) >= 1

\* C5: with a batch size other than 1 no rank initialises the process group,
\* loads the model, calls model.chat or writes a results file.
C5_BatchSize ==
  batch_size # 1 =>
    /\ \A r \in Ranks :
         /\ ~pg_init[r] /\ ~model_loaded[r]
         /\ pc[r] \in {"main", "makedirs", "args", "failed"}
         /\ pc[r] = "failed" => err[r] \in {"AssertionError: batch size", "FileExistsError"}
    /\ chat_calls = 0
    /\ files = <<>> /\ cmds = <<>>

\* C5 witness: a rank stopped on the batch-size assertion
C5_Witness ==
  /\ batch_size # 1
  /\ \E r \in Ranks : pc[r] = "failed" /\ err[r] = "AssertionError: batch size"

\* number of lines with something on them besides the terminator
NonEmptyLineCount == Cardinality({i \in 1 .. Len(Lines) : Strip(Lines[i]) # <<>>})

\* number of line terminators, plus one for a last line without terminator
LineCount ==
  Cardinality({k \in 1 .. Len(file) : file[k] = "nl"})
    + (IF file # <<>> /\ file[Len(file)] # "nl" THEN 1 ELSE 0)

\* C6 as stated: the size given to the sampler is the number of non-empty
\* lines, and no blank line's index is in any rank's range.
C6_NonEmptyLines ==
  \A r \in Ranks : SamplerCalled(r) =>
    /\ size[r] = NonEmptyLineCount
    /\ \A i \in RangeSet(local_indices[r]) : Strip(Lines[i + 1]) # <<>>

\* C6 amended: the size given to the sampler is the number of lines of the
\* file, blank lines included, and every line index, blank or not, is in the
\* range of exactly one rank once all ranks built their sampler.
C6_AllLines ==
  /\ \A r \in Ranks : SamplerCalled(r) => size[r] = LineCount
  /\ (\A r \in Ranks : size[r] > 0) =>
       \A i \in 0 .. LineCount - 1 :
         Cardinality({q \in Ranks : i \in RangeSet(local_indices[q])}) = 1

\* C6 witness: a blank line was counted, assigned to a rank and read by it
C6_Witness ==
  /\ NonEmptyLineCount < LineCount
  /\ \A r \in Ranks : size[r] > 0
  /\ \E r \in Ranks :
       /\ pc[r] = "failed" /\ err[r] = "JSONDecodeError"
       /\ Strip(Lines[cursor[r] + 1]) = <<>>

\* C7: with total_size <= 0 every rank that builds the sampler stops on the
\* assertion; no range is assigned, nothing is inferred, no barrier is entered.
C7_EmptySize ==
  Len(Lines) <= 0 =>
    /\ \A r \in Ranks :
         /\ pc[r] \notin {"loop", "barrier", "all_gather", "write", "score", "done"}
         /\ SamplerCalled(r) => pc[r] = "failed" /\ err[r] = "AssertionError: size"
         /\ local_indices[r] = <<0, 0>> /\ outputs[r] = <<>>
         /\ barrier_count[r] = 0 /\ gather_buf[r] = <<>>
    /\ chat_calls = 0
    /\ files = <<>>

\* C7 witness: an empty question file, every one of several ranks stopped
C7_Witness ==
  /\ file = <<>> /\ world_size >= 2
  /\ \A r \in Ranks : pc[r] = "failed" /\ err[r] = "AssertionError: size"

\* C8: a rank that stopped stays stopped and enters no further barrier, and
\* while some rank has not entered the barrier of a dataset no rank is past
\* it: no all-gather of that dataset returned, no file written, no scoring.
C8_BarrierHolds ==
  /\ [](\A q \in Ranks :
          /\ \A r \in Ranks : Len(gather_buf[r]) <= barrier_count[q]
                              /\ MergesDone(r) <= barrier_count[q]
          /\ \A k \in 1 .. Len(files) : files[k].ds <= barrier_count[q]
          /\ \A k \in 1 .. Len(cmds) : cmds[k].ds <= barrier_count[q])
  /\ [][\A q \in Ranks : pc[q] = "failed" =>
          pc'[q] = "failed" /\ barrier_count'[q] = barrier_count[q]]_vars

\* C8 witness: one rank aborted in its shard, another waits in the barrier
C8_Witness ==
  /\ \E q \in Ranks : pc[q] = "failed" /\ err[q] = "item error" /\ barrier_count[q] = 0
  /\ \E r \in Ranks : pc[r] = "barrier" /\ barrier_count[r] = 1
  /\ files = <<>> /\ cmds = <<>>

\* C9: whatever the scoring command returns, rank 0 has written the file of
\* the dataset and goes on to the next dataset without an error.
C9_StatusIgnored ==
  [][\A r \in Ranks : (pc[r] = "score" /\ pc'[r] # "score") =>
        /\ pc'[r] = "ds_begin" /\ ds_i'[r] = ds_i[r] + 1 /\ err'[r] = ""
        /\ files' = files /\ Len(files) >= 1 /\ files[Len(files)].ds = ds_i[r]
        /\ merged_outputs' = merged_outputs]_vars

\* C9 witness: scoring failed for the first dataset and rank 0 finished the run
C9_Witness ==
  /\ Len(cmds) >= 1 /\ cmds[1].status # 0
  /\ pc[0] = "done" /\ err[0] = ""

\* C10: after the all-gather every rank holds the same merged list, of
\* exactly total_size predictions, one for each dataset index.
C10_SameCompleteList ==
  \A r \in Ranks : MergesDone(r) >= 1 =>
    /\ Len(merged_outputs[r]) = LineCount
    /\ \A i \in 0 .. LineCount - 1 :
         Cardinality({k \in 1 .. Len(merged_outputs[r]) :
                        merged_outputs[r][k].question_id = i}) = 1
    /\ \A q \in Ranks : MergesDone(q) >= 1 => merged_outputs[q] = merged_outputs[r]

\* C10 witness: every one of several ranks completed the run
C10_Witness ==
  /\ world_size >= 2 /\ Len(Lines) >= 3
  /\ \A r \in Ranks : pc[r] = "done" /\ MergesDone(r) >= 1

====
